---- MODULE Spec2Model ----
(***************************************************************************)
(* Theseus and the Minotaur (theseus-and-the-minotaur.py): the grid, the   *)
(* movement resolver, the minotaur's pursuit step, the turn stack with     *)
(* undo and the memoised explorer driven by mainLoop.                      *)
(*                                                                         *)
(* Coordinates are <<x, y>>, zero-based as in the source; TLA+ sequences   *)
(* are one-based, so maze[y][x] of the source is maze[y + 1][x + 1] here.  *)
(***************************************************************************)
EXTENDS Integers, Sequences, FiniteSets, TLC

VARIABLES maze, finish, initial, turns, traversed, solver, status, input, move, before, call

vars == <<maze, finish, initial, turns, traversed, solver, status, input, move, before, call>>

(***************************************************************************)
(* Bounds of the model.                                                    *)
(***************************************************************************)
\* longest turn stack that keyboard input may build
MaxTurns == 5
\* longest pre-seeded move list (the optional second command line argument)
MaxInitial == 3
\* generated grids of the resolver harness: rows and row width
MaxRows == 2
MaxCols == 2

(***************************************************************************)
(* The closed alphabets.                                                   *)
(***************************************************************************)
MazeTile == {"EMPTY", "WALL", "WALKABLE", "FINISH"}

Move == {"UP", "DOWN", "LEFT", "RIGHT", "SKIP", "QUIT", "UNDO", "AUTO"}

ActorMoves == {"UP", "DOWN", "LEFT", "RIGHT", "SKIP"}

\* what getch() can deliver: a Move, or a key Move(...) rejects with ValueError
Keys == Move \cup {"INVALID"}

Turn(player, minotaur, moves) == [player |-> player, minotaur |-> minotaur, moves |-> moves]

(***************************************************************************)
(* Grid model.                                                             *)
(***************************************************************************)
isLocValid(mz, loc) ==
    LET x == loc[1]
        y == loc[2]
    IN  IF y < 0 \/ y >= Len(mz) THEN FALSE
        ELSE IF x < 0 \/ x >= Len(mz[y + 1]) THEN FALSE
        ELSE IF mz[y + 1][x + 1] = "WALL" THEN FALSE
        ELSE TRUE

\* mutant: up and down looked up on the wrong side
validMoves_Flipped(mz, coord) ==
    LET x == coord[1]
        y == coord[2]
    IN  {"SKIP"}
        \cup (IF isLocValid(mz, <<x, y + 1>>) THEN {"UP"} ELSE {})
        \cup (IF isLocValid(mz, <<x, y - 1>>) THEN {"DOWN"} ELSE {})
        \cup (IF isLocValid(mz, <<x - 1, y>>) THEN {"LEFT"} ELSE {})
        \cup (IF isLocValid(mz, <<x + 1, y>>) THEN {"RIGHT"} ELSE {})

validMoves(mz, coord) ==
    LET x == coord[1]
        y == coord[2]
    IN  {"SKIP"}
        \cup (IF isLocValid(mz, <<x, y - 1>>) THEN {"UP"} ELSE {})
        \cup (IF isLocValid(mz, <<x, y + 1>>) THEN {"DOWN"} ELSE {})
        \cup (IF isLocValid(mz, <<x - 1, y>>) THEN {"LEFT"} ELSE {})
        \cup (IF isLocValid(mz, <<x + 1, y>>) THEN {"RIGHT"} ELSE {})

(***************************************************************************)
(* Movement resolver: <<new location, valid>>.                             *)
(***************************************************************************)
\* mutant: the destination cell is checked instead of the cell in between
movePlayer_ChecksDestination(mz, player, mv) ==
    LET x == player[1]
        y == player[2]
        newPlayer == CASE mv = "UP" -> <<x, y - 2>>
                       [] mv = "DOWN" -> <<x, y + 2>>
                       [] mv = "LEFT" -> <<x - 2, y>>
                       [] mv = "RIGHT" -> <<x + 2, y>>
                       [] OTHER -> player
    IN  IF mv \in {"UP", "DOWN", "LEFT", "RIGHT"}
        THEN IF isLocValid(mz, newPlayer)
             THEN <<newPlayer, TRUE>>
             ELSE <<player, FALSE>>
        ELSE IF mv = "SKIP" THEN <<player, TRUE>>
        ELSE <<player, FALSE>>

\* mutant: a blocked direction is accepted like a free one
movePlayer_NeverRejects(mz, player, mv) ==
    LET x == player[1]
        y == player[2]
        newPlayer == CASE mv = "UP" -> <<x, y - 2>>
                       [] mv = "DOWN" -> <<x, y + 2>>
                       [] mv = "LEFT" -> <<x - 2, y>>
                       [] mv = "RIGHT" -> <<x + 2, y>>
                       [] OTHER -> player
    IN  IF mv \in {"UP", "DOWN", "LEFT", "RIGHT"}
        THEN <<newPlayer, TRUE>>
        ELSE IF mv = "SKIP" THEN <<player, TRUE>>
        ELSE <<player, FALSE>>

movePlayer(mz, player, mv) ==
    LET x == player[1]
        y == player[2]
        newPlayer == CASE mv = "UP" -> <<x, y - 2>>
                       [] mv = "DOWN" -> <<x, y + 2>>
                       [] mv = "LEFT" -> <<x - 2, y>>
                       [] mv = "RIGHT" -> <<x + 2, y>>
                       [] OTHER -> player
        validCheckLoc == CASE mv = "UP" -> <<x, y - 1>>
                           [] mv = "DOWN" -> <<x, y + 1>>
                           [] mv = "LEFT" -> <<x - 1, y>>
                           [] mv = "RIGHT" -> <<x + 1, y>>
                           [] OTHER -> player
    IN  IF mv \in {"UP", "DOWN", "LEFT", "RIGHT"}
        THEN IF isLocValid(mz, validCheckLoc)
             THEN <<newPlayer, TRUE>>
             ELSE <<player, FALSE>>
        ELSE IF mv = "SKIP" THEN <<player, TRUE>>
        ELSE <<player, FALSE>>

(***************************************************************************)
(* Pursuit: horizontally first, then vertically.  The move variable of the *)
(* source keeps its horizontal value when the y coordinates are equal.     *)
(***************************************************************************)
\* mutant: the vertical move is tried before the horizontal one
moveMinotaur_VerticalFirst(mz, player, minotaur) ==
    LET vmove == IF player[2] < minotaur[2] THEN "UP"
                 ELSE IF player[2] > minotaur[2] THEN "DOWN"
                 ELSE "SKIP"
        vres == movePlayer(mz, minotaur, vmove)[1]
        hmove == IF player[1] < minotaur[1] THEN "LEFT"
                 ELSE IF player[1] > minotaur[1] THEN "RIGHT"
                 ELSE vmove
    IN  IF vres # minotaur THEN vres
        ELSE movePlayer(mz, minotaur, hmove)[1]

moveMinotaur(mz, player, minotaur) ==
    LET hmove == IF player[1] < minotaur[1] THEN "LEFT"
                 ELSE IF player[1] > minotaur[1] THEN "RIGHT"
                 ELSE "SKIP"
        hres == movePlayer(mz, minotaur, hmove)[1]
        vmove == IF player[2] < minotaur[2] THEN "UP"
                 ELSE IF player[2] > minotaur[2] THEN "DOWN"
                 ELSE hmove
    IN  IF hres # minotaur THEN hres
        ELSE movePlayer(mz, minotaur, vmove)[1]

(***************************************************************************)
(* loadMaze.  A file is a sequence of lines, a line a sequence of          *)
(* characters.  Every line is stripped of leading and trailing blanks;     *)
(* the player, minotaur and finish glyphs give the positions (the last     *)
(* occurrence in reading order wins, (0, 0) when the glyph is absent).     *)
(***************************************************************************)
PLAYER == "*"

MINOTAUR == "M"

RECURSIVE lstrip(_)
lstrip(line) ==
    IF line # <<>> /\ Head(line) = " " THEN lstrip(Tail(line)) ELSE line

RECURSIVE rstrip(_)
rstrip(line) ==
    IF line # <<>> /\ line[Len(line)] = " "
    THEN rstrip(SubSeq(line, 1, Len(line) - 1))
    ELSE line

strip(line) == rstrip(lstrip(line))

tileOf(char) ==
    CASE char = PLAYER -> "WALKABLE"
      [] char = MINOTAUR -> "WALKABLE"
      [] char = "X" -> "EMPTY"
      [] char = " " -> "EMPTY"
      [] char = "#" -> "WALL"
      [] char = "." -> "WALKABLE"

\* the coordinate the scan of loadMaze leaves in a position variable
lastGlyph(lines, char) ==
    LET found == {c \in UNION {{<<x - 1, y - 1>> : x \in 1..Len(lines[y])} : y \in 1..Len(lines)} :
                     lines[c[2] + 1][c[1] + 1] = char}
    IN  IF found = {} THEN <<0, 0>>
        ELSE CHOOSE c \in found :
                 \A d \in found : d[2] < c[2] \/ (d[2] = c[2] /\ d[1] <= c[1])

loadMaze(file) ==
    LET lines == [y \in 1..Len(file) |-> strip(file[y])]
        mz == [y \in 1..Len(lines) |-> [x \in 1..Len(lines[y]) |-> tileOf(lines[y][x])]]
        player == lastGlyph(lines, PLAYER)
        minotaur == lastGlyph(lines, MINOTAUR)
        fin == lastGlyph(lines, "X")
        moves == validMoves(mz, player)
        subState == Turn(player, minotaur, <<>>)
    IN  [maze |-> mz, finish |-> fin, initial |-> <<>>, turns |-> <<subState>>,
         traversed |-> [k \in {<<player, minotaur>>} |-> moves], solver |-> FALSE]

(***************************************************************************)
(* The maze files of the model.                                            *)
(***************************************************************************)
\* the scenario maze of the specification: no minotaur glyph
MazeScenario ==
    << <<"#", "#", "#", "#", "#">>,
       <<"#", "*", ".", ".", "#">>,
       <<"#", ".", "#", ".", "#">>,
       <<"#", ".", ".", "X", "#">>,
       <<"#", "#", "#", "#", "#">> >>

\* an open 2 x 2 cell room, the minotaur in the opposite corner
MazeOpen ==
    << <<"*", ".", ".">>,
       <<".", ".", ".">>,
       <<"X", ".", "M">> >>

\* the minotaur walled in below the corridor to the finish
MazeWalled ==
    << <<"*", ".", ".", ".", "X">>,
       <<"#", "#", "#", "#", "#">>,
       <<"M", ".", ".", ".", ".">> >>

\* a corridor the minotaur runs down: the loss scenario
MazeChase ==
    << <<"*", ".", ".", ".", "M", "#", "X">> >>

\* no finish within reach: player and finish are separated by a wall
MazeClosed ==
    << <<"X", "#", "*", ".", ".">>,
       <<"#", "#", ".", "#", "#">>,
       <<"M", "#", ".", ".", ".", " ">> >>

\* a perimeter that does not close: the passage below the start leads off the grid
MazeOpenEdge ==
    << <<"*", ".", "X", "#", "M">>,
       <<".", "#", "#", "#", "#">> >>

\* no glyphs at all: player, minotaur and finish all default to (0, 0)
MazeNoGlyphs ==
    << <<".", ".", ".">> >>

\* rows of different width, blanks at the line ends, the minotaur on an odd row
MazeRagged ==
    << <<" ", "*", ".", ".">>,
       <<".", "M">>,
       <<".", ".", "X", " ">> >>

MazeFiles ==
    {MazeScenario, MazeOpen, MazeWalled, MazeChase, MazeClosed, MazeOpenEdge,
     MazeNoGlyphs, MazeRagged}

(***************************************************************************)
(* printMaze: what the rendering at the head of mainLoop does to the       *)
(* process.  The two assignments into the printed grid index Python lists  *)
(* (an index i of a list of length n is in range iff -n <= i < n, negative *)
(* indices count from the end) and raise IndexError otherwise; a won game  *)
(* exits with code 0; a lost game only prints.                             *)
(***************************************************************************)
indexable(mz, loc) ==
    LET x == loc[1]
        y == loc[2]
        n == Len(mz)
    IN  /\ -n <= y /\ y < n
        /\ LET row == mz[(IF y < 0 THEN n + y ELSE y) + 1]
           IN  -Len(row) <= x /\ x < Len(row)

\* mutant: a won game is printed without leaving the process
printMaze_NeverExits(mz, fin, subState) ==
    IF ~indexable(mz, subState.player) \/ ~indexable(mz, subState.minotaur) THEN "crashed"
    ELSE IF subState.player = subState.minotaur THEN "lost"
    ELSE "shown"

printMaze(mz, fin, subState) ==
    IF ~indexable(mz, subState.player) \/ ~indexable(mz, subState.minotaur) THEN "crashed"
    ELSE IF subState.player = subState.minotaur THEN "lost"
    ELSE IF subState.player = fin THEN "won"
    ELSE "shown"

(***************************************************************************)
(* The steps of mainLoop, in the order of the source.                      *)
(***************************************************************************)
\* lines 234-242: the pre-seeded list first, then auto mode, then the keyboard
readMove(init, slv, key) ==
    IF Len(init) > 0 THEN Head(init)
    ELSE IF slv THEN "AUTO"
    ELSE key

\* lines 248-254: an unchecked move of the current configuration, or undo
autoMove(uncheckedMoves, choice) ==
    IF Cardinality(uncheckedMoves) = 0 THEN "UNDO" ELSE choice

\* mutant: the first turn is removed instead of the last
undo_PopsFirst(ts) ==
    IF Len(ts) > 1 THEN Tail(ts) ELSE ts

\* mutant: the stack is popped without looking at its length
undo_Unguarded(ts) ==
    SubSeq(ts, 1, Len(ts) - 1)

\* lines 256-259
undo(ts) ==
    IF Len(ts) > 1 THEN SubSeq(ts, 1, Len(ts) - 1) ELSE ts

\* mutant: only a won game blocks further moves
isOver_WonOnly(subState, fin) ==
    subState.player = fin

\* line 261
isOver(subState, fin) ==
    subState.player = subState.minotaur \/ subState.player = fin

\* mutant: the move stays in the set
removeMove_Keeps(trav, key, mv) ==
    trav

\* lines 265-267
removeMove(trav, key, mv) ==
    IF mv \in trav[key] THEN [trav EXCEPT ![key] = @ \ {mv}] ELSE trav

\* mutant: the unchecked moves are computed anew on every visit
memoize_Recomputed(trav, mz, fin, player, minotaur) ==
    LET fresh == validMoves(mz, player)
        uncheckedMoves == IF player = minotaur \/ player = fin THEN {} ELSE fresh
    IN  [k \in DOMAIN trav \cup {<<player, minotaur>>} |->
            IF k = <<player, minotaur>> THEN uncheckedMoves ELSE trav[k]]

\* mutant: a new configuration starts with every actor move unchecked
memoize_AllMoves(trav, mz, fin, player, minotaur) ==
    LET fresh == ActorMoves
        known == IF <<player, minotaur>> \in DOMAIN trav
                 THEN trav[<<player, minotaur>>]
                 ELSE fresh
        uncheckedMoves == IF player = minotaur \/ player = fin THEN {} ELSE known
    IN  [k \in DOMAIN trav \cup {<<player, minotaur>>} |->
            IF k = <<player, minotaur>> THEN uncheckedMoves ELSE trav[k]]

\* mutant: the table keeps the configuration reached and forgets the others
memoize_OnlyNewest(trav, mz, fin, player, minotaur) ==
    LET fresh == validMoves(mz, player)
        known == IF <<player, minotaur>> \in DOMAIN trav
                 THEN trav[<<player, minotaur>>]
                 ELSE fresh
        uncheckedMoves == IF player = minotaur \/ player = fin THEN {} ELSE known
    IN  [k \in {<<player, minotaur>>} |-> uncheckedMoves]

\* lines 278-287: the unchecked moves recorded for the configuration reached
memoize(trav, mz, fin, player, minotaur) ==
    LET fresh == validMoves(mz, player)
        known == IF <<player, minotaur>> \in DOMAIN trav
                 THEN trav[<<player, minotaur>>]
                 ELSE fresh
        uncheckedMoves == IF player = minotaur \/ player = fin THEN {} ELSE known
    IN  [k \in DOMAIN trav \cup {<<player, minotaur>>} |->
            IF k = <<player, minotaur>> THEN uncheckedMoves ELSE trav[k]]

\* mutant: the minotaur moves once per turn
pushTurn_OneStep(ts, mz, player, mv) ==
    LET subState == ts[Len(ts)]
        minotaur == moveMinotaur(mz, player, subState.minotaur)
    IN  Append(ts, Turn(player, minotaur, Append(subState.moves, mv)))

\* mutant: the new turn carries the move list of the turn before
pushTurn_KeepsMoves(ts, mz, player, mv) ==
    LET subState == ts[Len(ts)]
        first == moveMinotaur(mz, player, subState.minotaur)
        minotaur == moveMinotaur(mz, player, first)
    IN  Append(ts, Turn(player, minotaur, subState.moves))

\* lines 273-276, 289: the minotaur moves twice, then the new turn is appended
pushTurn(ts, mz, player, mv) ==
    LET subState == ts[Len(ts)]
        first == moveMinotaur(mz, player, subState.minotaur)
        minotaur == moveMinotaur(mz, player, first)
    IN  Append(ts, Turn(player, minotaur, Append(subState.moves, mv)))

(***************************************************************************)
(* The session: main() loads the maze, sets the solver flag and the        *)
(* pre-seeded moves, and calls mainLoop for ever.  status is the process:  *)
(* running, won (exit 0 from printMaze), quit (exit 1) or crashed (an      *)
(* exception nothing catches).  input and move are the move mainLoop read  *)
(* and the move it acted on in its last call; before is a history          *)
(* variable, the turn stack as it was when that call began.                *)
(***************************************************************************)
NoCall == [fn |-> "none", pos |-> <<0, 0>>, other |-> <<0, 0>>, mv |-> "SKIP", ret |-> <<>>]

InitialLists == UNION {[1..n -> Move] : n \in 0..MaxInitial}

Loaded(file) ==
    LET state == loadMaze(file)
    IN  /\ maze = state.maze
        /\ finish = state.finish
        /\ turns = state.turns
        /\ traversed = state.traversed
        /\ status = "running"
        /\ input = "NONE"
        /\ move = "NONE"
        /\ before = state.turns
        /\ call = NoCall

Init ==
    \E file \in MazeFiles, slv \in BOOLEAN, init \in InitialLists :
        /\ Loaded(file)
        /\ solver = slv
        /\ initial = init

\* getch() is called only when the pre-seeded list is empty and auto mode is
\* off; the keyboard offers no further move once the stack holds MaxTurns turns
KeysRead ==
    IF Len(initial) > 0 \/ solver THEN {"NONE"}
    ELSE IF Len(turns) >= MaxTurns THEN {"UNDO", "QUIT", "INVALID"}
    ELSE Keys

\* random.choice(list(uncheckedMoves)): any member; nothing is drawn from an
\* empty set or for a configuration the table does not hold
Choices ==
    LET subState == turns[Len(turns)]
        cur == <<subState.player, subState.minotaur>>
    IN  IF cur \in DOMAIN traversed /\ traversed[cur] # {} THEN traversed[cur] ELSE {"NONE"}

\* (the names of a step are bound by \E over a one-element set, which has TLC
\* compute each value once)
MainLoop(key, choice) ==
    /\ status = "running"
    /\ before' = turns
    /\ \E subState \in {turns[Len(turns)]} :
       \E cur \in {<<subState.player, subState.minotaur>>} :
       \E shown \in {printMaze(maze, finish, subState)} :
       \E inp \in {readMove(initial, solver, key)} :
           IF shown \in {"crashed", "won"}
           THEN /\ status' = shown
                /\ UNCHANGED <<initial, turns, traversed, input, move>>
           ELSE /\ initial' = IF Len(initial) > 0 THEN Tail(initial) ELSE initial
                /\ input' = inp
                /\ IF inp = "INVALID"
                   THEN /\ move' = "NONE"
                        /\ UNCHANGED <<turns, traversed, status>>
                   ELSE IF inp = "QUIT"
                   THEN /\ move' = inp
                        /\ status' = "quit"
                        /\ UNCHANGED <<turns, traversed>>
                   ELSE IF cur \notin DOMAIN traversed
                   THEN /\ move' = inp
                        /\ IF inp = "AUTO" \/ (inp # "UNDO" /\ ~isOver(subState, finish))
                           THEN status' = "crashed" /\ UNCHANGED turns
                           ELSE /\ turns' = IF inp = "UNDO" THEN undo(turns) ELSE turns
                                /\ UNCHANGED status
                        /\ UNCHANGED traversed
                   ELSE \E mv \in {IF inp = "AUTO" THEN autoMove(traversed[cur], choice) ELSE inp} :
                            /\ move' = mv
                            /\ IF mv = "UNDO"
                               THEN /\ turns' = undo(turns)
                                    /\ UNCHANGED <<traversed, status>>
                               ELSE IF isOver(subState, finish)
                               THEN UNCHANGED <<turns, traversed, status>>
                               ELSE \E unchecked \in {removeMove(traversed, cur, mv)} :
                                    \E res \in {movePlayer(maze, subState.player, mv)} :
                                        IF ~res[2]
                                        THEN /\ traversed' = unchecked
                                             /\ UNCHANGED <<turns, status>>
                                        ELSE \E pushed \in {pushTurn(turns, maze, res[1], mv)} :
                                                 /\ turns' = pushed
                                                 /\ traversed' = memoize(unchecked, maze, finish,
                                                                         pushed[Len(pushed)].player,
                                                                         pushed[Len(pushed)].minotaur)
                                                 /\ UNCHANGED status
    /\ UNCHANGED <<maze, finish, solver, call>>

Next == \E key \in KeysRead, choice \in Choices : MainLoop(key, choice)

Spec == Init /\ [][Next]_vars

(***************************************************************************)
(* Auto mode from the start: --solver and no pre-seeded moves.  mainLoop   *)
(* is called in a loop that never waits, so a running process always takes *)
(* its next step.                                                          *)
(***************************************************************************)
SolverInit ==
    \E file \in MazeFiles :
        /\ Loaded(file)
        /\ solver = TRUE
        /\ initial = <<>>

SolverSpec == SolverInit /\ [][Next]_vars /\ WF_vars(Next)

\* auto mode behind a pre-seeded list of actor moves and undos
ScriptedLists == UNION {[1..n -> ActorMoves \cup {"UNDO"}] : n \in 0..MaxInitial}

ScriptedInit ==
    \E file \in MazeFiles, init \in ScriptedLists :
        /\ Loaded(file)
        /\ solver = TRUE
        /\ initial = init

ScriptedSpec == ScriptedInit /\ [][Next]_vars /\ WF_vars(Next)

(***************************************************************************)
(* The pure functions on their own: any grid of at most MaxRows lines of   *)
(* at most MaxCols tiles (lines of different width included) and the maze  *)
(* files, with positions inside, on and beyond the edges.                  *)
(***************************************************************************)
GridLines == UNION {[1..w -> {"#", "."}] : w \in 0..MaxCols}

GridFiles == UNION {[1..h -> GridLines] : h \in 0..MaxRows}

Width(mz) ==
    IF mz = <<>> THEN 0
    ELSE CHOOSE w \in {Len(mz[y]) : y \in 1..Len(mz)} :
             \A y \in 1..Len(mz) : Len(mz[y]) <= w

Coords(mz) == (-2..(Width(mz) + 1)) \X (-2..(Len(mz) + 1))

ResolverInit ==
    \E file \in GridFiles \cup MazeFiles :
        /\ Loaded(file)
        /\ solver = FALSE
        /\ initial = <<>>

CallMovePlayer ==
    /\ call = NoCall
    /\ \E pos \in Coords(maze), mv \in Move :
           call' = [fn |-> "movePlayer", pos |-> pos, other |-> pos, mv |-> mv,
                    ret |-> movePlayer(maze, pos, mv)]
    /\ UNCHANGED <<maze, finish, initial, turns, traversed, solver, status, input, move, before>>

CallValidMoves ==
    /\ call = NoCall
    /\ \E pos \in Coords(maze) :
           call' = [fn |-> "validMoves", pos |-> pos, other |-> pos, mv |-> "SKIP",
                    ret |-> validMoves(maze, pos)]
    /\ UNCHANGED <<maze, finish, initial, turns, traversed, solver, status, input, move, before>>

\* positions of the pursued player: the grid and one cell around it
Targets(mz) == (-1..Width(mz)) \X (-1..Len(mz))

\* pos is the minotaur, other the player
CallMoveMinotaur ==
    /\ call = NoCall
    /\ \E minotaur \in Coords(maze), player \in Targets(maze) :
           call' = [fn |-> "moveMinotaur", pos |-> minotaur, other |-> player, mv |-> "SKIP",
                    ret |-> moveMinotaur(maze, player, minotaur)]
    /\ UNCHANGED <<maze, finish, initial, turns, traversed, solver, status, input, move, before>>

ResolverNext == CallMovePlayer \/ CallValidMoves \/ CallMoveMinotaur

ResolverSpec == ResolverInit /\ [][ResolverNext]_vars

(***************************************************************************)
(* Vocabulary of the properties.                                           *)
(***************************************************************************)
Current == turns[Len(turns)]

CurrentKey == <<Current.player, Current.minotaur>>

\* the step is a call of mainLoop that got past printMaze and acted on move'
Processed == status = "running" /\ status' = "running" /\ before' = turns /\ move' # "NONE"

(***************************************************************************)
(* C1: from start positions that are in the grid and not walls, the player *)
(* and the minotaur of every turn on the stack are on cells that are in    *)
(* the grid and not walls.                                                 *)
(***************************************************************************)
C1_PositionsValid ==
    (isLocValid(maze, turns[1].player) /\ isLocValid(maze, turns[1].minotaur))
        => \A i \in 1..Len(turns) :
               isLocValid(maze, turns[i].player) /\ isLocValid(maze, turns[i].minotaur)

(***************************************************************************)
(* C2: when the last call of mainLoop pushed a turn (the stack is one      *)
(* longer than it was when that call began) and the next call processes    *)
(* undo, the stack is again exactly the stack from before the push.        *)
(***************************************************************************)
C2_UndoInvertsPush ==
    [][(Len(turns) = Len(before) + 1 /\ Processed /\ move' = "UNDO")
           => turns' = before]_vars

\* an undo has just popped the turn an accepted move had pushed
C2_Witness ==
    /\ move = "UNDO"
    /\ status = "running"
    /\ Len(before) = Len(turns) + 1
    /\ SubSeq(before, 1, Len(turns)) = turns
    /\ Len(before[Len(before)].moves) = Len(Current.moves) + 1

(***************************************************************************)
(* C3: the turn stack is never empty, its first turn is for ever the turn  *)
(* loadMaze built (no moves), and an undo processed while the stack holds  *)
(* one turn changes neither the stack nor the table, the maze, the finish, *)
(* the solver flag or the process status.                                  *)
(***************************************************************************)
C3_StackFloor ==
    /\ \E file \in MazeFiles : turns = loadMaze(file).turns /\ maze = loadMaze(file).maze
    /\ [](Len(turns) >= 1 /\ turns[1].moves = <<>>)
    /\ [][/\ turns'[1] = turns[1]
          /\ (Len(turns) = 1 /\ Processed /\ move' = "UNDO")
                 => /\ turns' = turns
                    /\ traversed' = traversed
                    /\ <<maze, finish, solver, status>>' = <<maze, finish, solver, status>>]_vars

\* an undo has just been processed at the floor of the stack, after play had left it
C3_Witness ==
    /\ move = "UNDO"
    /\ status = "running"
    /\ Len(before) = 1
    /\ Len(turns) = 1
    /\ Cardinality(DOMAIN traversed) > 1

(***************************************************************************)
(* The configuration graph of the game: from a configuration that is shown *)
(* and neither lost nor won, every actor move the resolver accepts leads   *)
(* to the configuration after the minotaur's two steps.                    *)
(***************************************************************************)
Successors(c) ==
    IF printMaze(maze, finish, Turn(c[1], c[2], <<>>)) # "shown" THEN {}
    ELSE {<<movePlayer(maze, c[1], mv)[1],
            moveMinotaur(maze, movePlayer(maze, c[1], mv)[1],
                         moveMinotaur(maze, movePlayer(maze, c[1], mv)[1], c[2]))>> :
             mv \in {m \in ActorMoves : movePlayer(maze, c[1], m)[2]}}

RECURSIVE Closure(_)
Closure(S) ==
    LET more == S \cup UNION {Successors(c) : c \in S}
    IN  IF more = S THEN S ELSE Closure(more)

Reachable == Closure({<<turns[1].player, turns[1].minotaur>>})

\* some sequence of actor moves leads from the initial configuration to a win
Solvable == \E c \in Reachable : c[1] = finish /\ c[1] # c[2]

(***************************************************************************)
(* C4: in auto mode from the initial turn, on a maze where a win can be    *)
(* reached, every execution eventually has a current turn with the player  *)
(* on the finish.                                                          *)
(***************************************************************************)
C4_ExplorerLiveness ==
    Solvable => <>(Current.player = finish)

(***************************************************************************)
(* C5: in auto mode on a maze where no win can be reached, every execution *)
(* eventually stays for ever in a state whose stack holds only the initial *)
(* turn and whose initial configuration has no unchecked move left.        *)
(***************************************************************************)
C5_ExplorerTermination ==
    ~Solvable => <>[](/\ Len(turns) = 1
                      /\ traversed[<<turns[1].player, turns[1].minotaur>>] = {})

(***************************************************************************)
(* C6: no step takes a configuration out of the table or adds a move to    *)
(* its unchecked set; and when an accepted move pushes a turn whose        *)
(* configuration the table already holds, the set recorded for it is what  *)
(* was left of it (less the move just consumed, when the move led back to  *)
(* the configuration it was made from), not validMoves computed anew.      *)
(***************************************************************************)
C6_MemoizedByKey ==
    [][/\ \A k \in DOMAIN traversed :
              k \in DOMAIN traversed' /\ traversed'[k] \subseteq traversed[k]
       /\ (Len(turns') = Len(turns) + 1
              /\ <<turns'[Len(turns')].player, turns'[Len(turns')].minotaur>> \in DOMAIN traversed)
           => LET k == <<turns'[Len(turns')].player, turns'[Len(turns')].minotaur>>
              IN  traversed'[k] = traversed[k] \ (IF k = CurrentKey THEN {move'} ELSE {})]_vars

\* a move by a different history has just reached a configuration whose set
\* had been partly consumed, and the set is still short of validMoves
C6_Witness ==
    /\ Len(turns) = Len(before) + 1
    /\ CurrentKey # <<before[Len(before)].player, before[Len(before)].minotaur>>
    /\ \E i \in 1..Len(before) :
           /\ <<before[i].player, before[i].minotaur>> = CurrentKey
           /\ before[i].moves # Current.moves
    /\ traversed[CurrentKey] # {}
    /\ traversed[CurrentKey] # validMoves(maze, Current.player)

(***************************************************************************)
(* C7: whenever a call of mainLoop in auto mode chooses a move from the    *)
(* unchecked set of the current configuration, the move is no longer in    *)
(* that set after the call.                                                *)
(***************************************************************************)
C7_AutoConsumesChoice ==
    [][(Processed /\ input' = "AUTO" /\ move' \in ActorMoves)
           => move' \notin traversed'[CurrentKey]]_vars

(***************************************************************************)
(* C8: a call of mainLoop that acts on an actor move while the current     *)
(* configuration is lost or won changes neither the stack nor the table.   *)
(***************************************************************************)
C8_TerminalBlocksMoves ==
    [][(Processed /\ (Current.player = Current.minotaur \/ Current.player = finish)
           /\ move' \in ActorMoves)
           => (turns' = turns /\ traversed' = traversed)]_vars

\* an actor move has just been supplied at a lost configuration that a move
\* had led to, and the stack stayed as it was
C8_Witness ==
    /\ status = "running"
    /\ input \in ActorMoves
    /\ move = input
    /\ before = turns
    /\ Len(turns) > 1
    /\ Current.player = Current.minotaur

(***************************************************************************)
(* C9: movePlayer returns (position, TRUE) for skip; for a direction, the  *)
(* position two cells along it and TRUE when the cell one step along it is *)
(* valid, else the position unchanged and FALSE; for quit, undo and auto   *)
(* the position unchanged and FALSE.                                       *)
(***************************************************************************)
Delta(mv) ==
    CASE mv = "UP" -> <<0, -1>>
      [] mv = "DOWN" -> <<0, 1>>
      [] mv = "LEFT" -> <<-1, 0>>
      [] mv = "RIGHT" -> <<1, 0>>

Shift(pos, mv, n) == <<pos[1] + n * Delta(mv)[1], pos[2] + n * Delta(mv)[2]>>

Directions == {"UP", "DOWN", "LEFT", "RIGHT"}

C9_MovePlayerContract ==
    call.fn = "movePlayer" =>
        /\ call.mv = "SKIP" => call.ret = <<call.pos, TRUE>>
        /\ call.mv \in {"QUIT", "UNDO", "AUTO"} => call.ret = <<call.pos, FALSE>>
        /\ call.mv \in Directions =>
               IF isLocValid(maze, Shift(call.pos, call.mv, 1))
               THEN call.ret = <<Shift(call.pos, call.mv, 2), TRUE>>
               ELSE call.ret = <<call.pos, FALSE>>

\* a move accepted through an open cell onto a wall, two cells along
C9_Witness ==
    /\ call.fn = "movePlayer"
    /\ call.mv = "DOWN"
    /\ call.ret = <<Shift(call.pos, "DOWN", 2), TRUE>>
    /\ ~isLocValid(maze, call.ret[1])
    /\ isLocValid(maze, call.pos)

(***************************************************************************)
(* C10: validMoves holds skip, holds none of quit, undo and auto, and      *)
(* holds a direction exactly when movePlayer accepts it, that is when the  *)
(* cell one step along it is valid.                                        *)
(***************************************************************************)
C10_ValidMovesAgree ==
    call.fn = "validMoves" =>
        /\ "SKIP" \in call.ret
        /\ call.ret \cap {"QUIT", "UNDO", "AUTO"} = {}
        /\ call.ret \subseteq Move
        /\ \A mv \in Directions :
               /\ mv \in call.ret <=> movePlayer(maze, call.pos, mv)[2]
               /\ mv \in call.ret <=> isLocValid(maze, Shift(call.pos, mv, 1))

\* a position with some directions open and others closed
C10_Witness ==
    /\ call.fn = "validMoves"
    /\ call.ret = {"SKIP", "UP", "RIGHT"}

(***************************************************************************)
(* C11: moveMinotaur attempts left, right or skip by the sign of the x     *)
(* difference and returns that result when it changed the position;        *)
(* otherwise it attempts up, down or skip by the sign of the y difference  *)
(* and returns what the resolver yields.  Blocked horizontally with equal  *)
(* y coordinates, the minotaur stays where it is.                          *)
(***************************************************************************)
HorizontalAttempt(player, minotaur) ==
    IF player[1] < minotaur[1] THEN "LEFT"
    ELSE IF player[1] > minotaur[1] THEN "RIGHT"
    ELSE "SKIP"

VerticalAttempt(player, minotaur) ==
    IF player[2] < minotaur[2] THEN "UP"
    ELSE IF player[2] > minotaur[2] THEN "DOWN"
    ELSE "SKIP"

C11_PursuitStep ==
    call.fn = "moveMinotaur" =>
        LET player == call.other
            minotaur == call.pos
            across == movePlayer(maze, minotaur, HorizontalAttempt(player, minotaur))[1]
            along == movePlayer(maze, minotaur, VerticalAttempt(player, minotaur))[1]
        IN  /\ call.ret = IF across # minotaur THEN across ELSE along
            /\ (across = minotaur /\ player[2] = minotaur[2]) => call.ret = minotaur

\* the horizontal attempt was blocked by a wall and the vertical one moved the minotaur
C11_Witness ==
    /\ call.fn = "moveMinotaur"
    /\ call.other[1] # call.pos[1]
    /\ call.ret[1] = call.pos[1]
    /\ call.ret[2] # call.pos[2]

\* the horizontal attempt was blocked and the y coordinates are equal
C11_WitnessStays ==
    /\ call.fn = "moveMinotaur"
    /\ call.other[1] # call.pos[1]
    /\ call.other[2] = call.pos[2]
    /\ isLocValid(maze, call.pos)
    /\ call.ret = call.pos

(***************************************************************************)
(* C12: a move the resolver rejects (a direction whose adjacent cell is a  *)
(* wall or outside the grid) leaves the turn stack exactly as it was: no   *)
(* turn is pushed and the minotaur of the current turn does not move.      *)
(***************************************************************************)
Blocked(pos, mv) == mv \in Directions /\ ~isLocValid(maze, Shift(pos, mv, 1))

C12_RejectedMoveKeepsStack ==
    [][(Processed /\ Blocked(Current.player, move')) => turns' = turns]_vars

\* a blocked direction has just been processed in a configuration that is not
\* terminal, after an accepted move
C12_Witness ==
    /\ status = "running"
    /\ Blocked(Current.player, move)
    /\ Current.player # Current.minotaur
    /\ Current.player # finish
    /\ turns = before
    /\ Len(turns) > 1

(***************************************************************************)
(* C13: on the maze #####, #*..#, #.#.#, #..X#, ##### (no minotaur glyph,  *)
(* the minotaur starts at (0,0)) the pre-seeded moves e, e, s end with the *)
(* player on the X cell (3,3), away from the minotaur, and the session is  *)
(* won.  Stated as the chain of the four calls of mainLoop: the first e is *)
(* accepted, the second is rejected, s reaches X, and the next call exits. *)
(***************************************************************************)
\* Move(x) for the characters of the enum's values
MoveOfKey(ch) ==
    CASE ch = "n" -> "UP"
      [] ch = "s" -> "DOWN"
      [] ch = "w" -> "LEFT"
      [] ch = "e" -> "RIGHT"
      [] ch = "d" -> "SKIP"
      [] ch = "q" -> "QUIT"
      [] ch = "u" -> "UNDO"
      [] ch = "a" -> "AUTO"

\* [Move(x) for x in "e;e;s".split(";")]
ScenarioMoves == [i \in 1..3 |-> MoveOfKey(<<"e", "e", "s">>[i])]

ScenarioStart == Turn(<<1, 1>>, <<0, 0>>, <<>>)

ScenarioFirst == Turn(<<3, 1>>, <<0, 0>>, <<"RIGHT">>)

ScenarioLast == Turn(<<3, 3>>, <<0, 0>>, <<"RIGHT", "DOWN">>)

C13_Scenario ==
    /\ (maze = loadMaze(MazeScenario).maze /\ initial = ScenarioMoves)
           => turns = <<ScenarioStart>> /\ finish = <<3, 3>> /\ status = "running"
    /\ [][maze = loadMaze(MazeScenario).maze =>
            /\ (initial = ScenarioMoves /\ turns = <<ScenarioStart>>)
                   => /\ initial' = Tail(ScenarioMoves)
                      /\ turns' = <<ScenarioStart, ScenarioFirst>>
                      /\ status' = "running"
            /\ (initial = Tail(ScenarioMoves) /\ turns = <<ScenarioStart, ScenarioFirst>>)
                   => /\ initial' = Tail(Tail(ScenarioMoves))
                      /\ turns' = turns
                      /\ status' = "running"
            /\ (initial = Tail(Tail(ScenarioMoves)) /\ turns = <<ScenarioStart, ScenarioFirst>>)
                   => /\ initial' = <<>>
                      /\ turns' = <<ScenarioStart, ScenarioFirst, ScenarioLast>>
                      /\ status' = "running"
            /\ (initial = <<>> /\ turns = <<ScenarioStart, ScenarioFirst, ScenarioLast>>)
                   => /\ status' = "won"
                      /\ turns' = turns]_vars

\* the session has ended won, the player on X after e (accepted) and s
C13_Witness ==
    /\ maze = loadMaze(MazeScenario).maze
    /\ turns = <<ScenarioStart, ScenarioFirst, ScenarioLast>>
    /\ Current.player = finish
    /\ Current.player # Current.minotaur
    /\ initial = <<>>
    /\ status = "won"

(***************************************************************************)
(* C14: an accepted move (skip included) at a configuration that is not    *)
(* terminal pushes a turn whose player is the resolver's new position p'   *)
(* and whose minotaur is moveMinotaur(p', moveMinotaur(p', m)), m being    *)
(* the minotaur of the turn before.  Nothing else moves the minotaur: an   *)
(* undo, a rejected move and a move at a terminal configuration push       *)
(* nothing, and no call changes a turn that stays on the stack.            *)
(***************************************************************************)
Accepted(mv) ==
    /\ mv \in ActorMoves
    /\ Current.player # Current.minotaur
    /\ Current.player # finish
    /\ movePlayer(maze, Current.player, mv)[2]

C14_MinotaurTwicePerTurn ==
    [][/\ \A i \in 1..Len(turns) : i <= Len(turns') => turns'[i] = turns[i]
       /\ Len(turns') <= Len(turns) + 1
       /\ (Processed /\ Accepted(move'))
              => /\ Len(turns') = Len(turns) + 1
                 /\ LET player == movePlayer(maze, Current.player, move')[1]
                    IN  /\ turns'[Len(turns')].player = player
                        /\ turns'[Len(turns')].minotaur =
                               moveMinotaur(maze, player,
                                            moveMinotaur(maze, player, Current.minotaur))
       /\ (Processed /\ ~Accepted(move')) => Len(turns') <= Len(turns)]_vars

\* a turn has just been pushed in which the second step of the minotaur took it
\* further than the first
C14_Witness ==
    /\ status = "running"
    /\ Len(turns) = Len(before) + 1
    /\ LET m == before[Len(before)].minotaur
           first == moveMinotaur(maze, Current.player, m)
       IN  first # m /\ Current.minotaur # first /\ Current.minotaur # m

\* a skip has just been accepted and the minotaur moved
C14_WitnessSkip ==
    /\ status = "running"
    /\ Len(turns) = Len(before) + 1
    /\ move = "SKIP"
    /\ Current.player = before[Len(before)].player
    /\ Current.minotaur # before[Len(before)].minotaur

(***************************************************************************)
(* C15: every key of the table whose configuration is a loss (player =     *)
(* minotaur) or a win (player = finish) has an empty set of unchecked      *)
(* moves, the key of the turn made at load time included.                  *)
(***************************************************************************)
C15_TerminalKeysEmpty ==
    \A k \in DOMAIN traversed : (k[1] = k[2] \/ k[1] = finish) => traversed[k] = {}

(***************************************************************************)
(* C16: a supplied move (from the keyboard or the pre-seeded list) that is *)
(* accepted at a configuration that is not terminal pushes a turn whether  *)
(* or not it is in the unchecked set of that configuration; the set loses  *)
(* the move when it held it and is unchanged otherwise.                    *)
(***************************************************************************)
C16_SuppliedMoveNotFiltered ==
    [][(Processed /\ input' # "AUTO" /\ Accepted(move'))
           => /\ Len(turns') = Len(turns) + 1
              /\ turns'[Len(turns')].moves = Append(Current.moves, move')
              /\ traversed'[CurrentKey] = traversed[CurrentKey] \ {move'}]_vars

\* a supplied move has just pushed a turn although the unchecked set of its
\* configuration no longer held it: the turn before was pushed by the same
\* move from the same configuration
C16_Witness ==
    /\ status = "running"
    /\ input # "AUTO"
    /\ input = move
    /\ Len(turns) = Len(before) + 1
    /\ Len(turns) >= 3
    /\ LET n == Len(turns)
       IN  /\ <<turns[n - 2].player, turns[n - 2].minotaur>>
                  = <<turns[n - 1].player, turns[n - 1].minotaur>>
           /\ turns[n - 1].moves[n - 2] = move
           /\ turns[n].moves[n - 1] = move

(***************************************************************************)
(* C17: in auto mode behind a pre-seeded list of actor moves and undos,    *)
(* the walk has visited every configuration that can be reached from the   *)
(* initial one by the time it has settled on the initial turn with no      *)
(* unchecked move left (every visited configuration is a key of the        *)
(* table); and on a maze where a win can be reached, every execution       *)
(* eventually has a current turn with the player on the finish.            *)
(***************************************************************************)
Settled ==
    /\ status = "running"
    /\ initial = <<>>
    /\ Len(turns) = 1
    /\ CurrentKey \in DOMAIN traversed
    /\ traversed[CurrentKey] = {}

C17_ScriptedCoverage ==
    /\ [](Settled => Reachable \subseteq DOMAIN traversed)
    /\ Solvable => <>(Current.player = finish)

(***************************************************************************)
(* C18: the configuration of every turn on the stack is a key of the       *)
(* table, so no lookup by the current configuration fails, also after an   *)
(* undo has made an older turn the current one.                            *)
(***************************************************************************)
C18_StackKeysInTable ==
    \A i \in 1..Len(turns) : <<turns[i].player, turns[i].minotaur>> \in DOMAIN traversed

\* an undo has uncovered an older turn, and its configuration is still a key
C18_Witness ==
    /\ status = "running"
    /\ move = "UNDO"
    /\ Len(before) = Len(turns) + 1
    /\ Len(turns) >= 2
    /\ CurrentKey \in DOMAIN traversed
    /\ CurrentKey # <<before[Len(before)].player, before[Len(before)].minotaur>>

(***************************************************************************)
(* C19: the turn at 0-based index i of the stack carries exactly i moves,  *)
(* all actor moves, and its list is the list of the turn below it plus one *)
(* move; replaying the list from the initial configuration (each move      *)
(* accepted by the resolver at a configuration that is not terminal, the   *)
(* minotaur stepping twice after it) ends at the turn's player and         *)
(* minotaur.  Rejected and undone moves are therefore not in any list.     *)
(***************************************************************************)
\* the configuration after the first k of the moves, or "stuck" when one of
\* them is rejected or made at a terminal configuration
RECURSIVE Replay(_, _)
Replay(moves, k) ==
    IF k = 0 THEN <<turns[1].player, turns[1].minotaur>>
    ELSE LET c == Replay(moves, k - 1)
         IN  IF c = "stuck" THEN c
             ELSE IF c[1] = c[2] \/ c[1] = finish THEN "stuck"
             ELSE LET res == movePlayer(maze, c[1], moves[k])
                  IN  IF ~res[2] THEN "stuck"
                      ELSE <<res[1], moveMinotaur(maze, res[1],
                                                  moveMinotaur(maze, res[1], c[2]))>>

C19_MovesAreThePath ==
    \A i \in 1..Len(turns) :
        /\ Len(turns[i].moves) = i - 1
        /\ \A k \in 1..(i - 1) : turns[i].moves[k] \in ActorMoves
        /\ i > 1 => SubSeq(turns[i].moves, 1, i - 2) = turns[i - 1].moves
        /\ Replay(turns[i].moves, i - 1) = <<turns[i].player, turns[i].minotaur>>

\* a move has just been rejected on top of a stack of three turns, and the list of
\* the current turn holds the two accepted moves only
C19_Witness ==
    /\ status = "running"
    /\ Len(turns) = 3
    /\ turns = before
    /\ Blocked(Current.player, move)
    /\ Current.moves[2] # move
    /\ Current.player # turns[1].player

(***************************************************************************)
(* C20: the unchecked set of every key (p, m) of the table is a subset of  *)
(* validMoves(maze, p); so a move auto mode draws from the set of a        *)
(* configuration that is not terminal is accepted and pushes a turn.       *)
(***************************************************************************)
C20_UncheckedAreValid ==
    /\ [](\A k \in DOMAIN traversed : traversed[k] \subseteq validMoves(maze, k[1]))
    /\ [][(/\ Processed
           /\ input' = "AUTO"
           /\ move' # "UNDO"
           /\ Current.player # Current.minotaur
           /\ Current.player # finish)
              => /\ move' \in traversed[CurrentKey]
                 /\ Len(turns') = Len(turns) + 1
                 /\ turns'[Len(turns')].moves = Append(Current.moves, move')]_vars

\* auto mode has just pushed a turn with a move drawn from a set that earlier
\* steps had already depleted
C20_Witness ==
    /\ status = "running"
    /\ input = "AUTO"
    /\ move \in ActorMoves
    /\ Len(turns) = Len(before) + 1
    /\ LET k == <<before[Len(before)].player, before[Len(before)].minotaur>>
       IN  /\ traversed[k] \cup {move} # validMoves(maze, k[1])
           /\ traversed[k] \subseteq validMoves(maze, k[1])
           /\ move \in validMoves(maze, k[1])

====
